---- MODULE Spec2Model ----
(***************************************************************************)
(* connect_impala.py: create_odbc_connection, run_sql_query_to_df and the  *)
(* __main__ example, run against a pyodbc driver whose calls may raise.    *)
(*                                                                         *)
(* Text.  A str is a TLA+ string; f-strings are concatenations (\o).  The  *)
(* service argument is kept as its sequence of characters, because         *)
(* str.lower() and str.upper() act on characters; ToStr renders it.  A     *)
(* printed line is kept as the sequence of the pieces of its f-string.     *)
(*                                                                         *)
(* Values.  Python objects are records tagged by "kind"; None is           *)
(* [kind |-> "None"].  An exception is represented by its text, str(e).    *)
(***************************************************************************)
EXTENDS Naturals, Sequences, FiniteSets, TLC

\* ------------------------------------------------------------------ bounds
MaxCols == 2        \* columns of a result set: 1..MaxCols
MaxRows == 2        \* rows fetchall returns: 0..MaxRows
MaxQueries == 2     \* run_sql_query_to_df calls a caller makes on one connection

\* ------------------------------------------------------------- str methods
LowerCase == <<"a", "e", "h", "i", "k", "l", "m", "p", "r", "s", "v">>
UpperCase == <<"A", "E", "H", "I", "K", "L", "M", "P", "R", "S", "V">>

lowerChar(c) ==
    IF \E i \in 1..Len(UpperCase) : UpperCase[i] = c
    THEN LowerCase[CHOOSE i \in 1..Len(UpperCase) : UpperCase[i] = c]
    ELSE c

upperChar(c) ==
    IF \E i \in 1..Len(LowerCase) : LowerCase[i] = c
    THEN UpperCase[CHOOSE i \in 1..Len(LowerCase) : LowerCase[i] = c]
    ELSE c

lower(s) == [i \in 1..Len(s) |-> lowerChar(s[i])]
upper(s) == [i \in 1..Len(s) |-> upperChar(s[i])]

RECURSIVE ToStr(_)
ToStr(cs) == IF cs = <<>> THEN "" ELSE Head(cs) \o ToStr(Tail(cs))

\* ------------------------------------------------------------------ values
None == [kind |-> "None"]
Pending == [kind |-> "pending"]            \* the call has not returned yet
Connection == [kind |-> "Connection"]      \* the handle pyodbc.connect returns
Raised(text) == [kind |-> "raised", text |-> text]     \* the call raised to its caller
Exc(text) == [kind |-> "Exception", text |-> text]     \* a caught exception, str(e) = text
List(v) == [kind |-> "list", val |-> v]

\* ------------------------------------------------------ inputs of the calls
Services ==
    { <<"h", "i", "v", "e">>, <<"H", "i", "v", "e">>, <<"H", "I", "V", "E">>,
      <<"i", "m", "p", "a", "l", "a">>, <<"I", "m", "p", "a", "l", "a">>,
      <<"I", "M", "P", "A", "L", "A">>,
      <<>>, <<"s", "p", "a", "r", "k">>, <<"h", "i", "v", "e", " ">> }
Hosts == {"your.cloudera.host.com", "10.0.0.7"}
Ports == {"21050", "10000"}
KerberosNames == {"impala", "hive"}
Queries == {"SELECT * FROM your_table LIMIT 10;", "USE db;"}

\* what the driver's calls raise, as str(e)
DriverErrors == {"[HY000] General error", "[08S01] Communication link failure"}
ClosedConnectionError == "Attempt to use a closed connection."
NoneNotIterable == "'NoneType' object is not iterable"

VARIABLES
    pc,                     \* line of the function being run, "idle" between calls
    mpc,                    \* the caller: "lib" (any caller) or the line of __main__
    service, host, port, kerberos_service_name, ssl,    \* create_odbc_connection
    driver, connection_string,
    sql_query, columns, data, df, e,                    \* run_sql_query_to_df
    ret,                    \* what the last call returned, or that it raised
    conn,                   \* the caller's variable holding the connection
    connState,              \* the driver's connection: "absent", "open", "closed"
    cursor,                 \* the cursor of the current call: "none", "open", "closed"
    description,            \* cursor.description
    calls,                  \* the driver calls of the current call, in order
    stdout,                 \* the lines the current call printed
    nqueries,               \* run_sql_query_to_df calls made on the connection
    uncaught                \* the exception that ended the __main__ script, or None

createVars == <<service, host, port, kerberos_service_name, ssl, driver, connection_string>>
runVars == <<sql_query, columns, data, df, e>>
vars == <<pc, mpc, createVars, runVars, ret, conn, connState, cursor, description,
          calls, stdout, nqueries, uncaught>>

\* One driver call: its argument, what it raised ("" when it returned) and
\* what it returned.
Call(op, arg, err, out) == [op |-> op, arg |-> arg, err |-> err, out |-> out]
CallsOf(op) == {i \in 1..Len(calls) : calls[i].op = op}
Returned(op) == {i \in CallsOf(op) : calls[i].err = ""}
Failed(op) == {i \in CallsOf(op) : calls[i].err # ""}

\* ------------------------------------------------- create_odbc_connection
HiveDriver == "Cloudera ODBC Driver for Apache Hive"
ImpalaDriver == "Cloudera ODBC Driver for Apache Impala"

\* Variants of line 19: a comparison without lower(), and a selection that
\* recognises both service names and rejects the rest.
CaseSensitiveDriver(s) ==
    IF s = <<"h", "i", "v", "e">> THEN HiveDriver ELSE ImpalaDriver

ValidatingDriver(s) ==
    IF lower(s) = <<"h", "i", "v", "e">> THEN HiveDriver
    ELSE IF lower(s) = <<"i", "m", "p", "a", "l", "a">> THEN ImpalaDriver
    ELSE ""

\* line 19
Driver(s) ==
    IF lower(s) = <<"h", "i", "v", "e">> THEN HiveDriver ELSE ImpalaDriver

\* line 20
SslOption(b) == IF b THEN "1" ELSE "0"

\* Variant of lines 22-33: KrbHostFQDN takes the Kerberos service name.
ConnectionStringKrbName(drv, h, p, k, opt) ==
    "DRIVER={" \o drv \o "};" \o "HOST=" \o h \o ";" \o "PORT=" \o p \o ";"
    \o "AuthMech=1;" \o "KrbHostFQDN=" \o k \o ";" \o "KrbServiceName=" \o k \o ";"
    \o "KrbAuthType=2;" \o "SSL=" \o opt \o ";" \o "UID=;" \o "PWD=;"

\* lines 22-33
ConnectionString(drv, h, p, k, opt) ==
    "DRIVER={" \o drv \o "};"
    \o "HOST=" \o h \o ";"
    \o "PORT=" \o p \o ";"
    \o "AuthMech=1;"
    \o "KrbHostFQDN=" \o h \o ";"
    \o "KrbServiceName=" \o k \o ";"
    \o "KrbAuthType=2;"
    \o "SSL=" \o opt \o ";"
    \o "UID=;"
    \o "PWD=;"

\* line 37
SuccessMsg(s) == <<"Successfully connected to ", ToStr(upper(s))>>

\* Variant of line 40: the error text is left out.
FailedMsgNoText(s, err) == <<"Failed to connect to ", ToStr(upper(s))>>

\* line 40
FailedMsg(s, err) == <<"Failed to connect to ", ToStr(upper(s)), ": ", err>>

\* The call: the arguments are bound and lines 19-33 run.
EnterCreate(s, h, p, k, b) ==
    /\ pc = "idle"
    /\ service' = s /\ host' = h /\ port' = p
    /\ kerberos_service_name' = k /\ ssl' = b
    /\ driver' = Driver(s)
    /\ connection_string' = ConnectionString(Driver(s), h, p, k, SslOption(b))
    /\ pc' = "L36"
    /\ ret' = Pending
    /\ calls' = <<>> /\ stdout' = <<>>
    /\ sql_query' = "" /\ columns' = None /\ data' = None /\ df' = None /\ e' = None
    /\ cursor' = "none" /\ description' = None
    /\ UNCHANGED <<conn, connState, nqueries>>

\* lines 36-38: pyodbc.connect returns
ConnectOk ==
    /\ pc = "L36"
    /\ calls' = Append(calls, Call("connect", connection_string, "", Connection))
    /\ stdout' = Append(stdout, SuccessMsg(service))
    /\ ret' = Connection
    /\ conn' = Connection
    /\ connState' = "open"
    /\ nqueries' = 0
    /\ pc' = "idle"
    /\ UNCHANGED <<uncaught, mpc, createVars, runVars, cursor, description>>

\* lines 36, 39-41: pyodbc.connect raises
ConnectRaises ==
    /\ pc = "L36"
    /\ \E err \in DriverErrors :
        /\ calls' = Append(calls, Call("connect", connection_string, err, None))
        /\ e' = Exc(err)
        /\ stdout' = Append(stdout, FailedMsg(service, err))
    /\ ret' = None
    /\ conn' = None
    /\ connState' = "absent"
    /\ nqueries' = 0
    /\ pc' = "idle"
    /\ UNCHANGED <<uncaught, mpc, createVars, sql_query, columns, data, df, cursor, description>>

\* ---------------------------------------------------- run_sql_query_to_df
ColumnNames == {"id", "name"}
Values == {"1", "a"}
TypeCode(name) == IF name = "id" THEN "int" ELSE "str"

\* One entry of cursor.description: (name, type_code, display_size,
\* internal_size, precision, scale, null_ok).
Descriptor(name) == <<name, TypeCode(name), "None", "None", "None", "None", "True">>

SeqsOf(S, lo, hi) == UNION {[1..n -> S] : n \in lo..hi}

\* cursor.description after execute: None for a statement with no result set,
\* else one descriptor per column.
Descriptions ==
    {None} \cup {[kind |-> "description", val |-> [i \in 1..Len(ns) |-> Descriptor(ns[i])]] :
                    ns \in SeqsOf(ColumnNames, 1, MaxCols)}

\* what fetchall may return for a result set of n columns
RowLists(n) == SeqsOf([1..n -> Values], 0, MaxRows)

\* Variant of line 59: desc[1] instead of desc[0].
ColumnsByTypeCode(d) == [i \in 1..Len(d) |-> d[i][2]]

\* line 59: [desc[0] for desc in cursor.description]
Columns(d) == [i \in 1..Len(d) |-> d[i][1]]

\* line 63: pd.DataFrame.from_records(data, columns=columns): one array per
\* column, labelled by position with the given names.
FromRecords(rows, cols) ==
    [kind |-> "DataFrame",
     columns |-> cols,
     arrays |-> [j \in 1..Len(cols) |-> [i \in 1..Len(rows) |-> rows[i][j]]],
     nrows |-> Len(rows)]

\* line 66
ErrorMsg(err) == <<"Error executing query: ", err>>

\* The call: the arguments are bound.
EnterRun(q) ==
    /\ pc = "idle"
    /\ conn = Connection
    /\ sql_query' = q
    /\ columns' = None /\ data' = None /\ df' = None /\ e' = None
    /\ cursor' = "none" /\ description' = None
    /\ service' = <<>> /\ host' = "" /\ port' = ""
    /\ kerberos_service_name' = "" /\ ssl' = TRUE
    /\ driver' = "" /\ connection_string' = ""
    /\ ret' = Pending
    /\ calls' = <<>> /\ stdout' = <<>>
    /\ nqueries' = nqueries + 1
    /\ pc' = "L55"
    /\ UNCHANGED <<conn, connState>>

\* line 55: connection.cursor() returns a cursor
CursorOk ==
    /\ pc = "L55"
    /\ connState = "open"
    /\ cursor' = "open"
    /\ calls' = Append(calls, Call("cursor", "", "", None))
    /\ pc' = "L57"
    /\ UNCHANGED <<uncaught, mpc, createVars, runVars, ret, conn, connState, description,
                   stdout, nqueries>>

\* line 55: connection.cursor() raises, outside the try: the call raises
CursorRaises ==
    /\ pc = "L55"
    /\ \E err \in (IF connState = "open" THEN DriverErrors ELSE {ClosedConnectionError}) :
        /\ calls' = Append(calls, Call("cursor", "", err, None))
        /\ ret' = Raised(err)
    /\ pc' = "idle"
    /\ UNCHANGED <<uncaught, mpc, createVars, runVars, conn, connState, cursor, description,
                   stdout, nqueries>>

\* line 57: cursor.execute(sql_query) returns; the driver sets the description
ExecuteOk ==
    /\ pc = "L57"
    /\ \E d \in Descriptions :
        /\ description' = d
        /\ calls' = Append(calls, Call("execute", sql_query, "", d))
    /\ pc' = "L59"
    /\ UNCHANGED <<uncaught, mpc, createVars, runVars, ret, conn, connState, cursor,
                   stdout, nqueries>>

\* line 57: cursor.execute(sql_query) raises
ExecuteRaises ==
    /\ pc = "L57"
    /\ \E err \in DriverErrors : e' = Exc(err)
    /\ calls' = Append(calls, Call("execute", sql_query, e'.text, None))
    /\ pc' = "L66"
    /\ UNCHANGED <<uncaught, mpc, createVars, sql_query, columns, data, df, ret, conn,
                   connState, cursor, description, stdout, nqueries>>

\* Variant of line 59: a description of None is read as no columns,
\* `cursor.description or []`.
ReadColumnsNoneAsEmpty ==
    /\ pc = "L59"
    /\ columns' = IF description = None THEN List(<<>>) ELSE List(Columns(description.val))
    /\ pc' = "L61"
    /\ UNCHANGED <<uncaught, mpc, createVars, sql_query, data, df, e, ret, conn, connState,
                   cursor, description, calls, stdout, nqueries>>

\* line 59: the comprehension over cursor.description; iterating None raises
\* TypeError
ReadColumns ==
    /\ pc = "L59"
    /\ IF description = None
       THEN /\ e' = Exc(NoneNotIterable)
            /\ pc' = "L66"
            /\ UNCHANGED columns
       ELSE /\ columns' = List(Columns(description.val))
            /\ pc' = "L61"
            /\ UNCHANGED e
    /\ UNCHANGED <<uncaught, mpc, createVars, sql_query, data, df, ret, conn, connState,
                   cursor, description, calls, stdout, nqueries>>

\* line 61: cursor.fetchall() returns the rows, each as wide as the description
FetchallOk ==
    /\ pc = "L61"
    /\ \E rows \in RowLists(IF description = None THEN 0 ELSE Len(description.val)) :
        /\ data' = List(rows)
        /\ calls' = Append(calls, Call("fetchall", "", "", List(rows)))
    /\ pc' = "L63"
    /\ UNCHANGED <<uncaught, mpc, createVars, sql_query, columns, df, e, ret, conn, connState,
                   cursor, description, stdout, nqueries>>

\* line 61: cursor.fetchall() raises
FetchallRaises ==
    /\ pc = "L61"
    /\ \E err \in DriverErrors : e' = Exc(err)
    /\ calls' = Append(calls, Call("fetchall", "", e'.text, None))
    /\ pc' = "L66"
    /\ UNCHANGED <<uncaught, mpc, createVars, sql_query, columns, data, df, ret, conn,
                   connState, cursor, description, stdout, nqueries>>

\* lines 63-64: the frame is built and becomes the return value; the finally
\* clause runs before the call returns
ReturnDf ==
    /\ pc = "L63"
    /\ df' = FromRecords(data.val, columns.val)
    /\ ret' = FromRecords(data.val, columns.val)
    /\ pc' = "L68"
    /\ UNCHANGED <<uncaught, mpc, createVars, sql_query, columns, data, e, conn, connState,
                   cursor, description, calls, stdout, nqueries>>

\* lines 65-66: except Exception as e: print(...)
Except ==
    /\ pc = "L66"
    /\ stdout' = Append(stdout, ErrorMsg(e.text))
    /\ pc' = "L68"
    /\ UNCHANGED <<uncaught, mpc, createVars, runVars, ret, conn, connState, cursor,
                   description, calls, nqueries>>

\* Variants of lines 67-68: a finally clause that does not close the cursor,
\* and one that also closes the connection.
FinallyLeaksCursor ==
    /\ pc = "L68"
    /\ ret' = IF ret = Pending THEN None ELSE ret
    /\ pc' = "idle"
    /\ UNCHANGED <<uncaught, mpc, createVars, runVars, conn, connState, cursor, description,
                   calls, stdout, nqueries>>

FinallyClosesConnection ==
    /\ pc = "L68"
    /\ cursor' = "closed"
    /\ connState' = "closed"
    /\ calls' = Append(calls, Call("close", "", "", None))
    /\ ret' = IF ret = Pending THEN None ELSE ret
    /\ pc' = "idle"
    /\ UNCHANGED <<uncaught, mpc, createVars, runVars, conn, description, stdout, nqueries>>

\* lines 67-68: cursor.close(); then the call returns the frame, or None when
\* the except clause ran (the function falls off its end).  The cursor was
\* opened by this call and is still open here, and pyodbc's Cursor.close()
\* raises only on a cursor that is already closed, so close returns.
Finally ==
    /\ pc = "L68"
    /\ cursor' = "closed"
    /\ calls' = Append(calls, Call("close", "", "", None))
    /\ ret' = IF ret = Pending THEN None ELSE ret
    /\ pc' = "idle"
    /\ UNCHANGED <<uncaught, mpc, createVars, runVars, conn, connState, description, stdout,
                   nqueries>>

\* -------------------------------------------------------------- any caller
\* A caller holding no connection calls create_odbc_connection.
CallerCreate ==
    /\ mpc = "lib"
    /\ conn = None
    /\ \E s \in Services, h \in Hosts, p \in Ports, k \in KerberosNames, b \in BOOLEAN :
        EnterCreate(s, h, p, k, b)
    /\ UNCHANGED <<mpc, uncaught>>

\* A caller calls run_sql_query_to_df with the connection it holds, open or
\* already closed.
CallerRun ==
    /\ mpc = "lib"
    /\ nqueries < MaxQueries
    /\ \E q \in Queries : EnterRun(q)
    /\ UNCHANGED <<mpc, uncaught>>

\* A caller closes its connection: connection.close()
CallerClose ==
    /\ mpc = "lib"
    /\ pc = "idle"
    /\ conn = Connection
    /\ connState = "open"
    /\ connState' = "closed"
    /\ UNCHANGED <<pc, mpc, createVars, runVars, ret, conn, cursor, description,
                   calls, stdout, nqueries, uncaught>>

\* ---------------------------------------------------------------- __main__
hive_or_impala == <<"i", "m", "p", "a", "l", "a">>                    \* line 73
MainHost == "your.cloudera.host.com"                                  \* line 74
MainPort == "21050"                                                   \* line 75
MainKerberosServiceName ==                                            \* line 76
    IF hive_or_impala = <<"i", "m", "p", "a", "l", "a">> THEN "impala" ELSE "hive"
MainQuery == "SELECT * FROM your_table LIMIT 10;"                     \* line 83
NoEmptyAttribute == "'NoneType' object has no attribute 'empty'"

\* df.empty: an axis of the frame has length 0
Empty(frame) == Len(frame.columns) = 0 \/ frame.nrows = 0

\* line 79: conn = create_odbc_connection(...), ssl left at its default True
Main79 ==
    /\ mpc = "L79"
    /\ EnterCreate(hive_or_impala, MainHost, MainPort, MainKerberosServiceName, TRUE)
    /\ mpc' = "L81"
    /\ UNCHANGED uncaught

\* lines 81-86: if conn: df = run_sql_query_to_df(conn, query); else the
\* script ends
Main81 ==
    /\ mpc = "L81"
    /\ pc = "idle"
    /\ IF conn = Connection
       THEN /\ EnterRun(MainQuery)
            /\ mpc' = "L89"
       ELSE /\ mpc' = "done"
            /\ UNCHANGED <<pc, createVars, runVars, ret, conn, connState, cursor,
                           description, calls, stdout, nqueries>>
    /\ UNCHANGED uncaught

\* lines 86-90: an exception raised by the call ends the script; else
\* `if not df.empty: print(df)`, where None has no attribute `empty`
Main89 ==
    /\ mpc = "L89"
    /\ pc = "idle"
    /\ IF ret.kind = "raised"
       THEN /\ uncaught' = Exc(ret.text)
            /\ mpc' = "crashed"
            /\ UNCHANGED stdout
       ELSE IF ret = None
       THEN /\ uncaught' = Exc(NoEmptyAttribute)
            /\ mpc' = "crashed"
            /\ UNCHANGED stdout
       ELSE /\ stdout' = IF ~Empty(ret) THEN Append(stdout, <<"df">>) ELSE stdout
            /\ mpc' = "L93"
            /\ UNCHANGED uncaught
    /\ UNCHANGED <<pc, createVars, runVars, ret, conn, connState, cursor,
                   description, calls, nqueries>>

\* line 93: conn.close()
Main93 ==
    /\ mpc = "L93"
    /\ connState' = "closed"
    /\ mpc' = "done"
    /\ UNCHANGED <<pc, createVars, runVars, ret, conn, cursor, description,
                   calls, stdout, nqueries, uncaught>>

\* ---------------------------------------------------------- specifications
InitState(m) ==
    /\ pc = "idle" /\ mpc = m
    /\ service = <<>> /\ host = "" /\ port = ""
    /\ kerberos_service_name = "" /\ ssl = TRUE
    /\ driver = "" /\ connection_string = ""
    /\ sql_query = "" /\ columns = None /\ data = None /\ df = None /\ e = None
    /\ ret = None /\ conn = None /\ connState = "absent"
    /\ cursor = "none" /\ description = None
    /\ calls = <<>> /\ stdout = <<>> /\ nqueries = 0 /\ uncaught = None

\* the steps of the two functions
Step ==
    \/ ConnectOk \/ ConnectRaises
    \/ CursorOk \/ CursorRaises
    \/ ExecuteOk \/ ExecuteRaises
    \/ ReadColumns
    \/ FetchallOk \/ FetchallRaises
    \/ ReturnDf
    \/ Except
    \/ Finally

\* the functions under any caller
Init == InitState("lib")
Next == CallerCreate \/ CallerRun \/ CallerClose \/ Step
Spec == Init /\ [][Next]_vars

\* the __main__ script
MainInit == InitState("L79")
MainNext == Main79 \/ Main81 \/ Main89 \/ Main93 \/ Step
MainSpec == MainInit /\ [][MainNext]_vars

\* ================================================================== claims
Contains(line, piece) == \E i \in 1..Len(line) : line[i] = piece
Printed(piece) == \E m \in 1..Len(stdout) : Contains(stdout[m], piece)
RunReturned == pc = "idle" /\ CallsOf("cursor") # {}
hive == <<"h", "i", "v", "e">>

\* C1: whenever a call of run_sql_query_to_df obtained a cursor, close has
\* been called on it exactly once by the time the call returns, whichever
\* way the try block ended (a frame returned; execute, the read of the
\* description or fetchall raised); close is never called twice and is the
\* last driver call of the call.
CursorClosedExactlyOnce ==
    /\ Cardinality(CallsOf("close")) <= 1
    /\ (pc = "idle" /\ Returned("cursor") # {}) =>
          /\ Cardinality(CallsOf("close")) = 1
          /\ calls[Len(calls)].op = "close"
          /\ cursor = "closed"

CursorClosedAfterExecuteRaised ==
    /\ pc = "idle"
    /\ Failed("execute") # {}
    /\ Cardinality(CallsOf("close")) = 1
    /\ ret = None

\* C2: when pyodbc.connect raises, create_odbc_connection returns None after
\* exactly one connect call, having printed a line that contains the text of
\* the failure and the uppercased service name; nothing is raised to the
\* caller.
ConnectFailureReturnsNone ==
    (pc = "idle" /\ Failed("connect") # {}) =>
        /\ ret = None
        /\ Cardinality(CallsOf("connect")) = 1
        /\ \E m \in 1..Len(stdout) :
              /\ \A i \in Failed("connect") : Contains(stdout[m], calls[i].err)
              /\ Contains(stdout[m], ToStr(upper(service)))

ConnectFailureSeen ==
    /\ pc = "idle"
    /\ Failed("connect") # {}
    /\ service = <<"H", "i", "v", "e">>
    /\ Printed("HIVE")
    /\ Printed("[08S01] Communication link failure")

\* C3: every failure inside a call of run_sql_query_to_df (connection.cursor(),
\* execute, the read of the description, fetchall or close raising) is caught
\* in the call, printed with the error text, and turned into None: the call
\* never raises to its caller.
RunNeverRaises ==
    (RunReturned /\ (\E i \in 1..Len(calls) : calls[i].err # "")) =>
        /\ ret = None
        /\ \A i \in 1..Len(calls) : calls[i].err # "" => Printed(calls[i].err)

RECURSIVE JoinFields(_)
JoinFields(fs) == IF fs = <<>> THEN "" ELSE Head(fs) \o ";" \o JoinFields(Tail(fs))

\* C4: the string handed to pyodbc.connect is exactly
\* DRIVER={<driver>};HOST=<host>;PORT=<port>;AuthMech=1;KrbHostFQDN=<host>;
\* KrbServiceName=<name>;KrbAuthType=2;SSL=<flag>;UID=;PWD=; for the call's
\* arguments, the flag being 1 when ssl is true and 0 otherwise.
ConnectStringFormat ==
    \A i \in CallsOf("connect") :
        calls[i].arg =
            JoinFields(<< "DRIVER={" \o driver \o "}",
                          "HOST=" \o host,
                          "PORT=" \o port,
                          "AuthMech=1",
                          "KrbHostFQDN=" \o host,
                          "KrbServiceName=" \o kerberos_service_name,
                          "KrbAuthType=2",
                          IF ssl THEN "SSL=1" ELSE "SSL=0",
                          "UID=",
                          "PWD=" >>)

ConnectStringSeen ==
    /\ CallsOf("connect") # {}
    /\ ~ssl /\ host = "10.0.0.7" /\ kerberos_service_name = "hive" /\ port = "10000"
    /\ calls[1].arg =
         "DRIVER={Cloudera ODBC Driver for Apache Hive};HOST=10.0.0.7;PORT=10000;"
         \o "AuthMech=1;KrbHostFQDN=10.0.0.7;KrbServiceName=hive;KrbAuthType=2;"
         \o "SSL=0;UID=;PWD=;"

\* C5: for service "hive", "Hive" or "HIVE" the Hive driver is selected and
\* named in the string handed to connect, and for "impala", "Impala" or
\* "IMPALA" the Impala driver.
DriverIgnoresCase ==
    (pc = "L36" \/ CallsOf("connect") # {}) =>
        /\ service \in {<<"h", "i", "v", "e">>, <<"H", "i", "v", "e">>,
                        <<"H", "I", "V", "E">>}
              => driver = "Cloudera ODBC Driver for Apache Hive"
        /\ service \in {<<"i", "m", "p", "a", "l", "a">>,
                        <<"I", "m", "p", "a", "l", "a">>,
                        <<"I", "M", "P", "A", "L", "A">>}
              => driver = "Cloudera ODBC Driver for Apache Impala"

UpperCaseHiveSeen ==
    /\ CallsOf("connect") # {}
    /\ service = <<"H", "I", "V", "E">>
    /\ driver = "Cloudera ODBC Driver for Apache Hive"

\* C6: an open connection leaves the open state only by the caller's own
\* close: no step of create_odbc_connection or run_sql_query_to_df closes it,
\* whether the query succeeds or fails.
OnlyCallerCloses ==
    [][(connState = "open" /\ connState' # "open") => CallerClose]_vars

StillOpenAfterQueries ==
    /\ pc = "idle"
    /\ connState = "open"
    /\ nqueries >= 2
    /\ Failed("fetchall") # {}
    /\ ret = None

\* C7: when execute returns, the description lists columns c1..cn and
\* fetchall returns rows r1..rm, the call returns a frame whose column names
\* are the first elements of the descriptors in their order and whose rows
\* are r1..rm in their order.
FrameMatchesCursor ==
    (RunReturned /\ Returned("execute") # {} /\ Returned("fetchall") # {}) =>
        \A x \in Returned("execute"), f \in Returned("fetchall") :
            LET d == calls[x].out.val
                rows == calls[f].out.val
            IN  /\ ret.kind = "DataFrame"
                /\ Len(ret.columns) = Len(d)
                /\ \A j \in 1..Len(d) : ret.columns[j] = d[j][1]
                /\ ret.nrows = Len(rows)
                /\ \A i \in 1..Len(rows) :
                      [j \in 1..Len(d) |-> ret.arrays[j][i]] = rows[i]

TwoRowFrameSeen ==
    /\ RunReturned
    /\ ret.kind = "DataFrame"
    /\ ret.columns = <<"id", "name">>
    /\ \E f \in Returned("fetchall") :
          calls[f].out.val = << <<"1", "a">>, <<"a", "1">> >>

\* C8: in the __main__ script, a connection that was opened has been closed
\* when the script ends, when the query succeeded and when it failed.
MainClosesConnection ==
    (mpc \in {"done", "crashed"} /\ conn = Connection) => connState = "closed"

\* C9: a service that is not "hive" in any spelling, the empty string
\* included, is not rejected: the Impala driver is selected and the connect
\* call is made with it.
UnknownServiceGetsImpala ==
    (connection_string # "" /\ lower(service) # hive) =>
        /\ driver = "Cloudera ODBC Driver for Apache Impala"
        /\ pc = "L36" \/ (pc = "idle" /\ Cardinality(CallsOf("connect")) = 1)
        /\ \A i \in CallsOf("connect") :
              calls[i].arg =
                  ConnectionString("Cloudera ODBC Driver for Apache Impala", host, port,
                                   kerberos_service_name, SslOption(ssl))

EmptyServiceSeen ==
    /\ pc = "idle"
    /\ service = <<>>
    /\ Returned("connect") # {}
    /\ driver = "Cloudera ODBC Driver for Apache Impala"

\* C10: a call of run_sql_query_to_df returns a frame exactly when execute,
\* the read of the description and fetchall all completed; when execute
\* returned and the description is None, fetchall is not called, an error
\* line is printed and the call returns None.
FrameIffAllSucceed ==
    RunReturned =>
        /\ ret.kind = "DataFrame" <=>
              (Returned("execute") # {} /\ columns # None /\ Returned("fetchall") # {})
        /\ \A x \in Returned("execute") :
              calls[x].out = None =>
                  /\ columns = None
                  /\ CallsOf("fetchall") = {}
                  /\ stdout # <<>>
                  /\ ret = None

NoResultSetSeen ==
    /\ RunReturned
    /\ \E x \in Returned("execute") : calls[x].out = None
    /\ Printed("'NoneType' object is not iterable")
    /\ ret = None

====
